---- MODULE Spec2Model ----
(***************************************************************************)
(* Model of the rendering and literal-range-merging core of grex:          *)
(*   src/src/char/grapheme.rs  (Grapheme, overlap_with, escaping, Display) *)
(*   src/src/ast/format.rs     (Display for Expression)                    *)
(*                                                                         *)
(* A Rust String is a sequence of Unicode scalar values (naturals), a      *)
(* Vec<T> is a sequence, Option<T> is either None or [some |-> v].  An     *)
(* ANSI sequence ESC [ params m inside a String is kept as one negative    *)
(* element: -100 for ESC[0m, -(100 + n) for ESC[1;n m.                     *)
(***************************************************************************)
EXTENDS Integers, Sequences, FiniteSets, TLC

VARIABLES
    self,      \* receiver of Grapheme::overlap_with
    other,     \* argument of Grapheme::overlap_with
    result,    \* what overlap_with returned, or Pending before the call
    overflowed,  \* whether the call computed a min or max outside u32 (a debug build panics there)
    c,                    \* the char given to Grapheme::escape
    use_surrogate_pairs,  \* the flag given to Grapheme::escape
    escaped,              \* the String escape returned, or Pending
    grapheme,             \* a Grapheme owned by a caller of its methods
    symbols_escaped,      \* whether escape_regexp_symbols was applied to grapheme
    text,                 \* what grapheme.to_string() returned, or Pending
    expr,                 \* an Expression tree held by a caller of the renderer
    rendered,             \* what the last expr.to_string() returned, or Pending
    renders               \* how many times expr was rendered

overlapVars == <<self, other, result, overflowed>>
escapeVars == <<c, use_surrogate_pairs, escaped>>
graphemeVars == <<grapheme, symbols_escaped, text>>
renderVars == <<expr, rendered, renders>>
vars == <<overlapVars, escapeVars, graphemeVars, renderVars>>

(***************************************************************************)
(* Bounds of the model.                                                    *)
(***************************************************************************)
\* Grapheme.min and Grapheme.max are u32.  TLC's integers cannot hold 2^32, so
\* the unsigned type is scaled down to 0..MaxCount: MaxCount stands for
\* u32::MAX, and the arithmetic on counts wraps modulo MaxCount + 1.
MaxCount == 5

(***************************************************************************)
(* Values shared by all parts.                                             *)
(***************************************************************************)
\* a call not yet made, and the value a call returned
Pending == [done |-> FALSE]
Done(v) == [done |-> TRUE, ret |-> v]
None == [tag |-> "None"]
Some(v) == [tag |-> "Some", some |-> v]

\* u32 arithmetic of Grapheme.min / Grapheme.max (wrapping, as in a release build)
U32Modulus == MaxCount + 1
u32_add(a, b) == (a + b) % U32Modulus
u32_sub(a, b) == (a - b + U32Modulus) % U32Modulus

Min2(a, b) == IF a <= b THEN a ELSE b
Max2(a, b) == IF a >= b THEN a ELSE b

\* RegExpConfig, as far as grapheme.rs and format.rs read it
RegExpConfig(capturing, colorized, non_ascii, surrogate) ==
    [is_capturing_group_enabled |-> capturing,
     is_output_colorized |-> colorized,
     is_non_ascii_char_escaped |-> non_ascii,
     is_astral_code_point_converted_to_surrogate |-> surrogate]

DefaultConfig == RegExpConfig(FALSE, FALSE, FALSE, FALSE)
CapturingConfig == RegExpConfig(TRUE, FALSE, FALSE, FALSE)

(***************************************************************************)
(* Grapheme (grapheme.rs 36-63)                                            *)
(***************************************************************************)
Grapheme_new(chars, min, max, config) ==
    [chars |-> chars, repetitions |-> <<>>, min |-> min, max |-> max, config |-> config]

Grapheme_from(s, config) == Grapheme_new(<<s>>, 1, 1, config)

\* Grapheme::value (grapheme.rs 65-67): chars.join("")
RECURSIVE Join(_)
Join(strs) == IF strs = <<>> THEN <<>> ELSE Head(strs) \o Join(Tail(strs))

value(g) == Join(g.chars)

(***************************************************************************)
(* GraphemeOverlapState::flip (grapheme.rs 234-242)                        *)
(***************************************************************************)
flip_keeps_side(state) == state

flip(state) ==
    CASE state = "Left" -> "Right"
      [] state = "Right" -> "Left"
      [] state = "Overlap" -> "Overlap"

FlipAll(pieces) == [i \in 1..Len(pieces) |-> <<pieces[i][1], flip(pieces[i][2])>>]

(***************************************************************************)
(* Grapheme::overlap_with (grapheme.rs 168-231)                            *)
(***************************************************************************)
\* the three pushes of lines 183-228, for self the lower operand
LeftHead(s, o) ==
    IF s.min < o.min
    THEN << <<Grapheme_new(s.chars, s.min, Min2(s.max, u32_sub(o.min, 1)), s.config), "Left">> >>
    ELSE <<>>

OverlapPiece(s, o) ==
    IF s.max >= o.min
    THEN << <<Grapheme_new(s.chars, o.min, Min2(s.max, o.max), s.config), "Overlap">> >>
    ELSE <<>>

UpperTail_right_from_other_min(s, o) ==
    IF s.max < o.max
    THEN << <<Grapheme_new(s.chars, o.min, o.max, s.config), "Right">> >>
    ELSE IF s.max = o.max
    THEN <<>>
    ELSE << <<Grapheme_new(s.chars, Max2(u32_add(o.max, 1), s.min), s.max, s.config), "Left">> >>

UpperTail_greater_tagged_right(s, o) ==
    IF s.max < o.max
    THEN << <<Grapheme_new(s.chars, Max2(u32_add(s.max, 1), o.min), o.max, s.config), "Right">> >>
    ELSE IF s.max = o.max
    THEN <<>>
    ELSE << <<Grapheme_new(s.chars, Max2(u32_add(o.max, 1), s.min), s.max, s.config), "Right">> >>

UpperTail(s, o) ==
    IF s.max < o.max
    THEN << <<Grapheme_new(s.chars, Max2(u32_add(s.max, 1), o.min), o.max, s.config), "Right">> >>
    ELSE IF s.max = o.max
    THEN <<>>
    ELSE << <<Grapheme_new(s.chars, Max2(u32_add(o.max, 1), s.min), s.max, s.config), "Left">> >>

\* whether a - b and a + b leave the unsigned type
sub_overflows(a, b) == a < b
add_overflows(a, b) == a + b > MaxCount

\* other.min - 1 of line 189, inside the test of line 184
LeftHeadOverflows_unguarded(s, o) == sub_overflows(o.min, 1)

LeftHeadOverflows(s, o) == s.min < o.min /\ sub_overflows(o.min, 1)

\* self.max + 1 of line 212 and other.max + 1 of line 222, inside their match arms
UpperTailOverflows(s, o) ==
    IF s.max < o.max
    THEN add_overflows(s.max, 1)
    ELSE IF s.max = o.max
    THEN FALSE
    ELSE add_overflows(o.max, 1)

SortsAfter(s, o) == s.min > o.min \/ (s.min = o.min /\ s.max > o.max)

CharsDiffer_by_value(s, o) == value(s) # value(o)

CharsDiffer(s, o) == s.chars # o.chars

RECURSIVE overlap_with(_, _)
overlap_with(s, o) ==
    IF CharsDiffer(s, o)
    THEN None
    ELSE IF SortsAfter(s, o)
    THEN LET inner == overlap_with(o, s)
         IN IF inner = None THEN None ELSE Some(FlipAll(inner.some))
    ELSE Some(LeftHead(s, o) \o OverlapPiece(s, o) \o UpperTail(s, o))

\* whether overlap_with, the swapped call included, overflows
RECURSIVE overlap_overflows(_, _)
overlap_overflows(s, o) ==
    IF CharsDiffer(s, o)
    THEN FALSE
    ELSE IF SortsAfter(s, o)
    THEN overlap_overflows(o, s)
    ELSE LeftHeadOverflows(s, o) \/ UpperTailOverflows(s, o)

(***************************************************************************)
(* Specification of overlap_with: the two Graphemes are built by           *)
(* Grapheme::new, which takes any min and max, then the call is made.      *)
(***************************************************************************)
OverlapChars == { << <<97>> >>, << <<97, 98>> >>, << <<97>>, <<98>> >> }

OverlapInputs ==
    { Grapheme_new(ch, lo, hi, cfg) :
        ch \in OverlapChars, lo \in 0..MaxCount, hi \in 0..MaxCount,
        cfg \in {DefaultConfig, CapturingConfig} }

\* the ranges the data model allows
ValidRange(g) == g.min <= g.max

IdleOverlap == self = Pending /\ other = Pending /\ result = Pending /\ overflowed = FALSE
IdleEscape == c = 0 /\ use_surrogate_pairs = FALSE /\ escaped = Pending
IdleGrapheme == grapheme = Pending /\ symbols_escaped = FALSE /\ text = Pending
IdleRender == expr = Pending /\ rendered = Pending /\ renders = 0

InitOverlap ==
    /\ self \in OverlapInputs
    /\ other \in OverlapInputs
    /\ result = Pending
    /\ overflowed = FALSE
    /\ IdleEscape /\ IdleGrapheme /\ IdleRender

CallOverlapWith ==
    /\ ~result.done
    /\ result' = Done(overlap_with(self, other))
    /\ overflowed' = overlap_overflows(self, other)
    /\ UNCHANGED <<self, other, escapeVars, graphemeVars, renderVars>>

NextOverlap == CallOverlapWith

SpecOverlap == InitOverlap /\ [][NextOverlap]_vars

(***************************************************************************)
(* Properties of overlap_with                                              *)
(***************************************************************************)
Returned == result.done
SameChars == self.chars = other.chars
BothValid == ValidRange(self) /\ ValidRange(other)
Counts(g) == g.min .. g.max
Pieces == result.ret.some
PieceCounts(i) == Counts(Pieces[i][1])
Tagged(i, tag) == Pieces[i][2] = tag
RangesIntersect == Counts(self) \cap Counts(other) # {}
RangesDiffer == self.min # other.min \/ self.max # other.max

\* C1: for Graphemes with equal chars and valid ranges, overlap_with returns
\* one to three pieces, each with min <= max, pairwise disjoint, in strictly
\* ascending order of min, covering exactly the union of the two ranges.
C1_SplitIsOrderedPartitionOfUnion ==
    (Returned /\ SameChars /\ BothValid) =>
        /\ result.ret.tag = "Some"
        /\ Len(Pieces) \in 1..3
        /\ \A i \in 1..Len(Pieces) : Pieces[i][1].min <= Pieces[i][1].max
        /\ \A i, j \in 1..Len(Pieces) : i < j => PieceCounts(i) \cap PieceCounts(j) = {}
        /\ \A i \in 1..(Len(Pieces) - 1) : Pieces[i][1].min < Pieces[i + 1][1].min
        /\ UNION { PieceCounts(i) : i \in 1..Len(Pieces) } = Counts(self) \cup Counts(other)

\* a partial overlap called with the higher range as receiver: three pieces
C1_Witness ==
    /\ Returned /\ SameChars /\ BothValid /\ result.ret.tag = "Some"
    /\ Len(Pieces) = 3
    /\ self.min > other.min /\ self.max > other.max

\* C2: overlap_with returns None exactly when the chars differ, whatever the
\* ranges; with equal chars it returns Some, also for disjoint and for
\* identical ranges.
C2_NoneIffCharsDiffer ==
    Returned =>
        /\ (result.ret = None) <=> ~SameChars
        /\ SameChars => result.ret.tag = "Some"

\* None although the two ranges are identical and the joined text is the same
C2_Witness ==
    /\ Returned /\ result.ret = None /\ BothValid
    /\ ~RangesDiffer
    /\ value(self) = value(other)

\* C3: for equal chars and different ranges, a.overlap_with(b) and
\* b.overlap_with(a) have the same length and the same pieces position by
\* position, Left and Right swapped and Overlap unchanged.
C3_SwappedCallFlipsTags ==
    (Returned /\ SameChars /\ RangesDiffer) =>
        LET back == overlap_with(other, self) IN
        /\ result.ret.tag = "Some" /\ back.tag = "Some"
        /\ Len(back.some) = Len(Pieces)
        /\ \A i \in 1..Len(Pieces) :
              /\ back.some[i][1].chars = Pieces[i][1].chars
              /\ back.some[i][1].min = Pieces[i][1].min
              /\ back.some[i][1].max = Pieces[i][1].max
              /\ Tagged(i, "Left") <=> back.some[i][2] = "Right"
              /\ Tagged(i, "Right") <=> back.some[i][2] = "Left"
              /\ Tagged(i, "Overlap") <=> back.some[i][2] = "Overlap"

\* the receiver sorts after the argument, and the result has a Left and a Right piece
C3_Witness ==
    /\ Returned /\ SameChars /\ RangesDiffer /\ BothValid
    /\ SortsAfter(self, other)
    /\ \E i, j \in 1..Len(Pieces) : Tagged(i, "Left") /\ Tagged(j, "Right")

\* C4: for valid ranges and in either argument order, an Overlap piece lies in
\* both ranges, and there is exactly one iff the ranges intersect; a Left piece
\* lies in the receiver's range and outside the argument's; a Right piece lies
\* in the argument's range and outside the receiver's.
C4_TagsNameTheSide ==
    (Returned /\ SameChars /\ BothValid) =>
        /\ \A i \in 1..Len(Pieces) :
              /\ Tagged(i, "Overlap") => PieceCounts(i) \subseteq Counts(self) \cap Counts(other)
              /\ Tagged(i, "Left") => PieceCounts(i) \subseteq Counts(self) \ Counts(other)
              /\ Tagged(i, "Right") => PieceCounts(i) \subseteq Counts(other) \ Counts(self)
              /\ PieceCounts(i) # {}
        /\ Cardinality({ i \in 1..Len(Pieces) : Tagged(i, "Overlap") })
             = (IF RangesIntersect THEN 1 ELSE 0)

\* the argument lies strictly inside the receiver: Left, Overlap, Left
C4_Witness ==
    /\ Returned /\ SameChars /\ BothValid
    /\ Len(Pieces) = 3
    /\ Tagged(1, "Left") /\ Tagged(2, "Overlap") /\ Tagged(3, "Left")


(***************************************************************************)
(* Strings: char::escape_unicode, {:x}, char::encode_utf16                 *)
(***************************************************************************)
\* one lowercase hexadecimal digit as a char: 0-9 are 48-57, a-f are 97-102
HexDigit(d) == IF d < 10 THEN 48 + d ELSE 87 + d

\* {:x}: lowercase hexadecimal without leading zeros
RECURSIVE LowerHex(_)
LowerHex(n) == IF n < 16 THEN <<HexDigit(n)>> ELSE Append(LowerHex(n \div 16), HexDigit(n % 16))

\* "\u{" hex "}" : what both escape_unicode and the format string of line 164 write
UnicodeEscape(n) == <<92, 117, 123>> \o LowerHex(n) \o <<125>>

\* char::encode_utf16: one unit below 0x10000, else the high and the low surrogate
encode_utf16(ch) ==
    IF ch < 65536
    THEN <<ch>>
    ELSE <<55296 + ((ch - 65536) \div 1024), 56320 + ((ch - 65536) % 1024)>>

\* Grapheme::convert_to_surrogate_pair (grapheme.rs 161-166)
convert_to_surrogate_pair(ch) ==
    LET units == encode_utf16(ch)
    IN Join([i \in 1..Len(units) |-> UnicodeEscape(units[i])])

is_ascii(ch) == ch < 128

\* ('\u{10000}'..'\u{10ffff}').contains(&c): a half-open range
InAstralRange(ch) == 65536 <= ch /\ ch < 1114111

\* Grapheme::escape (grapheme.rs 151-159)
escape(ch, surrogate_pairs) ==
    IF is_ascii(ch)
    THEN <<ch>>
    ELSE IF surrogate_pairs /\ InAstralRange(ch)
    THEN convert_to_surrogate_pair(ch)
    ELSE UnicodeEscape(ch)

(***************************************************************************)
(* Specification of Grapheme::escape: a char around each boundary of the   *)
(* scalar values (ASCII, the BMP, the last scalar value) and a flag.       *)
(***************************************************************************)
\* how many chars on each side of a boundary are given to escape
BoundaryWindow == 8

Around(n) == (n - BoundaryWindow) .. (n + BoundaryWindow - 1)

EscapeInputs ==
    (Around(128) \cup Around(65536) \cup Around(128512) \cup Around(1114112)) \cap 0..1114111

InitEscape ==
    /\ c \in EscapeInputs
    /\ use_surrogate_pairs \in BOOLEAN
    /\ escaped = Pending
    /\ IdleOverlap /\ IdleGrapheme /\ IdleRender

CallEscape ==
    /\ ~escaped.done
    /\ escaped' = Done(escape(c, use_surrogate_pairs))
    /\ UNCHANGED <<c, use_surrogate_pairs, overlapVars, graphemeVars, renderVars>>

NextEscape == CallEscape

SpecEscape == InitEscape /\ [][NextEscape]_vars

\* the UTF-16 surrogates of an astral scalar value
HighSurrogate(ch) == 55296 + ((ch - 65536) \div 1024)
LowSurrogate(ch) == 56320 + ((ch - 65536) % 1024)

\* C12: for equal chars and valid ranges over the whole unsigned type,
\* overlap_with never underflows or overflows, in the direct and in the
\* swapped call: other.min - 1 is computed only for other.min >= 1, self.max + 1
\* and other.max + 1 only for an operand below the largest value.
C12_NoOverflow ==
    (Returned /\ SameChars /\ BothValid) => ~overflowed

\* a swapped call that subtracts from the smallest and adds to the largest
\* operand the guards let through
C12_Witness ==
    /\ Returned /\ SameChars /\ BothValid
    /\ SortsAfter(self, other)
    /\ other.min = 0 /\ self.min = 1
    /\ other.max = MaxCount - 1 /\ self.max = MaxCount
    /\ Len(Pieces) = 3

\* C8: ASCII passes through unchanged; with use_surrogate_pairs every char
\* from 0x10000 up to and including 0x10FFFF becomes the two \u{..} escapes
\* of its high and low surrogate; every other non-ASCII char becomes one
\* \u{..} escape of its scalar value.
C8_EscapeNonAscii ==
    escaped.done =>
        escaped.ret = (IF c < 128
                   THEN <<c>>
                   ELSE IF use_surrogate_pairs /\ c >= 65536 /\ c <= 1114111
                   THEN UnicodeEscape(HighSurrogate(c)) \o UnicodeEscape(LowSurrogate(c))
                   ELSE UnicodeEscape(c))

\* C8 everywhere but at the last scalar value
C8_HoldsBelowLastScalar == c # 1114111 => C8_EscapeNonAscii

(***************************************************************************)
(* Grapheme::escape_regexp_symbols (grapheme.rs 24-26, 106-149)            *)
(***************************************************************************)
\* ( ) [ ] { } + * - . ? | ^ $
CHARS_TO_ESCAPE ==
    << <<40>>, <<41>>, <<91>>, <<93>>, <<123>>, <<125>>, <<43>>,
       <<42>>, <<45>>, <<46>>, <<63>>, <<124>>, <<94>>, <<36>> >>

\* "\\", the one-character string of a backslash
Backslash == <<92>>

\* str::replace: every non-overlapping match of from, left to right, becomes to
RECURSIVE replace(_, _, _)
replace(str, from, to) ==
    IF Len(str) < Len(from) \/ str = <<>>
    THEN str
    ELSE IF SubSeq(str, 1, Len(from)) = from
    THEN to \o replace(SubSeq(str, Len(from) + 1, Len(str)), from, to)
    ELSE <<Head(str)>> \o replace(Tail(str), from, to)

\* the loop of lines 129-132 over CHARS_TO_ESCAPE, from its i-th entry on
RECURSIVE EscapeSymbolsFrom(_, _)
EscapeSymbolsFrom(character, i) ==
    IF i > Len(CHARS_TO_ESCAPE)
    THEN character
    ELSE EscapeSymbolsFrom(
             replace(character, CHARS_TO_ESCAPE[i], Backslash \o CHARS_TO_ESCAPE[i]), i + 1)

\* lines 134-137: "\n", "\r", "\t" become their two-character escapes
EscapeControls(character) ==
    replace(replace(replace(character, <<10>>, <<92, 110>>), <<13>>, <<92, 114>>),
            <<9>>, <<92, 116>>)

\* lines 139-141
EscapeLoneBackslash(character) ==
    IF character = Backslash THEN <<92, 92>> ELSE character

\* one pass of the loop of lines 126-144
EscapeFragment(character) ==
    EscapeLoneBackslash(EscapeControls(EscapeSymbolsFrom(character, 1)))

\* Grapheme::escape_non_ascii_chars (grapheme.rs 106-116), on the chars
escape_non_ascii_chars(chars, surrogate_pairs) ==
    [i \in 1..Len(chars) |->
        Join([k \in 1..Len(chars[i]) |-> escape(chars[i][k], surrogate_pairs)])]

\* the Grapheme as escape_regexp_symbols leaves it: only chars is written
escape_regexp_symbols(g, is_non_ascii_char_escaped, is_astral_code_point_converted_to_surrogate) ==
    LET characters == [i \in 1..Len(g.chars) |-> EscapeFragment(g.chars[i])]
    IN [g EXCEPT !.chars =
            IF is_non_ascii_char_escaped
            THEN escape_non_ascii_chars(characters, is_astral_code_point_converted_to_surrogate)
            ELSE characters]

(***************************************************************************)
(* impl Display for Grapheme (grapheme.rs 93-104, 244-344)                 *)
(***************************************************************************)
\* the decimal digits of a u32
RECURSIVE Decimal(_)
Decimal(n) == IF n < 10 THEN <<48 + n>> ELSE Append(Decimal(n \div 10), 48 + (n % 10))

\* Grapheme::char_count(false): the chars of all fragments
char_count(g) == Len(Join(g.chars))

\* str::matches('\\').count()
CountBackslashes(str) == Cardinality({ i \in 1..Len(str) : str[i] = 92 })

is_single_char(g) ==
    char_count(g) = 1 \/ (Len(g.chars) = 1 /\ CountBackslashes(g.chars[1]) = 1)

\* ColorizableString::to_colorized_string: the text itself, and with colorized
\* output the text between an ANSI style of its kind and the reset sequence
AnsiReset == <<-100>>
AnsiStyle(kind) == <<-(140 + kind)>>
to_colorized_string(str, kind, is_output_colorized) ==
    IF is_output_colorized THEN AnsiStyle(kind) \o str \o AnsiReset ELSE str

LeftParenthesisOf(config) ==
    IF config.is_capturing_group_enabled THEN <<40>> ELSE <<40, 63, 58>>

\* Display::fmt for Grapheme, as the String to_string returns
RECURSIVE to_string(_)
to_string(g) ==
    LET is_range == g.min < g.max
        is_repetition == g.min > 1
        single == is_single_char(g)
        val == IF g.repetitions = <<>>
               THEN value(g)
               ELSE Join([i \in 1..Len(g.repetitions) |-> to_string(g.repetitions[i])])
        on == g.config.is_output_colorized
        colored_value == to_colorized_string(val, 1, on)
        comma == to_colorized_string(<<44>>, 2, on)
        left_brace == to_colorized_string(<<123>>, 2, on)
        right_brace == to_colorized_string(<<125>>, 2, on)
        left_parenthesis == to_colorized_string(LeftParenthesisOf(g.config), 3, on)
        right_parenthesis == to_colorized_string(<<41>>, 3, on)
        min == to_colorized_string(Decimal(g.min), 4, on)
        max == to_colorized_string(Decimal(g.max), 4, on)
    IN IF ~is_range /\ is_repetition /\ single
       THEN colored_value \o left_brace \o min \o right_brace
       ELSE IF ~is_range /\ is_repetition /\ ~single
       THEN left_parenthesis \o colored_value \o right_parenthesis
                \o left_brace \o min \o right_brace
       ELSE IF is_range /\ single
       THEN colored_value \o left_brace \o min \o comma \o max \o right_brace
       ELSE IF is_range /\ ~single
       THEN left_parenthesis \o colored_value \o right_parenthesis
                \o left_brace \o min \o comma \o max \o right_brace
       ELSE colored_value

(***************************************************************************)
(* Specification of a Grapheme's escaping and rendering: a Grapheme is     *)
(* built by Grapheme::new, escaped at most once, and rendered.             *)
(***************************************************************************)
\* largest occurrence count of a rendered Grapheme
MaxRepeat == 3

\* a, ab, ., a., \n, \, U+00E9, U+1F600
Fragments ==
    { <<97>>, <<97, 98>>, <<46>>, <<97, 46>>, <<10>>, <<92>>, <<233>>, <<128512>> }

GraphemeChars == { <<f>> : f \in Fragments } \cup { << <<97>>, <<98>> >>, << <<97>>, <<46>> >> }

Configs ==
    { RegExpConfig(cap, col, na, su) :
        cap \in BOOLEAN, col \in BOOLEAN, na \in BOOLEAN, su \in BOOLEAN }

InitGrapheme ==
    /\ \E ch \in GraphemeChars, lo \in 0..MaxRepeat, hi \in 0..MaxRepeat, cfg \in Configs :
          /\ lo <= hi
          /\ grapheme = Grapheme_new(ch, lo, hi, cfg)
    /\ symbols_escaped = FALSE
    /\ text = Pending
    /\ IdleOverlap /\ IdleEscape /\ IdleRender

\* grapheme.escape_regexp_symbols(..), with the flags of the Grapheme's config
EscapeRegexpSymbols ==
    /\ ~symbols_escaped /\ ~text.done
    /\ grapheme' = escape_regexp_symbols(grapheme,
                        grapheme.config.is_non_ascii_char_escaped,
                        grapheme.config.is_astral_code_point_converted_to_surrogate)
    /\ symbols_escaped' = TRUE
    /\ UNCHANGED <<text, overlapVars, escapeVars, renderVars>>

\* grapheme.to_string()
DisplayGrapheme ==
    /\ ~text.done
    /\ text' = Done(to_string(grapheme))
    /\ UNCHANGED <<grapheme, symbols_escaped, overlapVars, escapeVars, renderVars>>

NextGrapheme == EscapeRegexpSymbols \/ DisplayGrapheme

SpecGrapheme == InitGrapheme /\ [][NextGrapheme]_vars

(***************************************************************************)
(* Properties of the rendering of a Grapheme                               *)
(***************************************************************************)
\* a String without its ANSI sequences
IsChar(x) == x >= 0
StripAnsi(str) == SelectSeq(str, IsChar)

\* one escape sequence: a backslash and one char, or \u{..}
IsSingleEscape(str) ==
    /\ Len(str) >= 2
    /\ str[1] = 92
    /\ \/ Len(str) = 2
       \/ /\ Len(str) >= 5
          /\ str[2] = 117 /\ str[3] = 123 /\ str[Len(str)] = 125
          /\ \A i \in 2..Len(str) : str[i] # 92

ValueIsOneChar(g) == Len(value(g)) = 1
ValueIsOneEscape(g) == Len(g.chars) = 1 /\ IsSingleEscape(g.chars[1])

Grouped(g, str) == LeftParenthesisOf(g.config) \o str \o <<41>>

\* the quantifier table, for a value that does or does not count as a single char
QuantifierTable(g, single) ==
    LET val == IF single THEN value(g) ELSE Grouped(g, value(g))
    IN IF g.min = g.max /\ g.min > 1
       THEN val \o <<123>> \o Decimal(g.min) \o <<125>>
       ELSE IF g.min < g.max
       THEN val \o <<123>> \o Decimal(g.min) \o <<44>> \o Decimal(g.max) \o <<125>>
       ELSE value(g)

RenderingFollowsTable ==
    LET out == StripAnsi(text.ret)
    IN IF ValueIsOneChar(grapheme)
       THEN out = QuantifierTable(grapheme, TRUE)
       ELSE IF ValueIsOneEscape(grapheme)
       THEN out \in {QuantifierTable(grapheme, TRUE), QuantifierTable(grapheme, FALSE)}
       ELSE out = QuantifierTable(grapheme, FALSE)

\* C5: a rendered Grapheme follows the quantifier table: value{min} or
\* value{min,max} for a value that is a single char, the value in a group
\* before the quantifier for every other value, the plain value when
\* min = max <= 1; a value counts as a single char only when it is exactly
\* one character or one fragment that is a single backslash escape.
C5_QuantifierTable == text.done => RenderingFollowsTable

\* a fragment of several chars that holds one backslash and more than an escape
MixedFragment(g) ==
    /\ Len(g.chars) = 1
    /\ CountBackslashes(g.chars[1]) = 1
    /\ ~IsSingleEscape(g.chars[1])

\* C5 for every Grapheme but those of one mixed fragment
C5_HoldsOffMixedFragment == (text.done /\ ~MixedFragment(grapheme)) => RenderingFollowsTable

(***************************************************************************)
(* Expression (format.rs 25-43) and what the renderer asks of it           *)
(***************************************************************************)
Alternation(options, config) == [kind |-> "Alternation", options |-> options, config |-> config]
CharacterClass(char_set, config) == [kind |-> "CharacterClass", char_set |-> char_set, config |-> config]
Concatenation(expr1, expr2, config) ==
    [kind |-> "Concatenation", expr1 |-> expr1, expr2 |-> expr2, config |-> config]
Literal(cluster, config) == [kind |-> "Literal", cluster |-> cluster, config |-> config]
Repetition(expr1, quantifier, config) ==
    [kind |-> "Repetition", expr1 |-> expr1, quantifier |-> quantifier, config |-> config]

\* Expression::is_single_codepoint: a character class, or a Literal of one
\* Grapheme of one char that occurs once
is_single_codepoint(e) ==
    \/ e.kind = "CharacterClass"
    \/ /\ e.kind = "Literal"
       /\ Len(e.cluster) = 1
       /\ char_count(e.cluster[1]) = 1
       /\ e.cluster[1].min = 1 /\ e.cluster[1].max = 1
       /\ e.cluster[1].repetitions = <<>>

\* Expression::precedence: alternation < concatenation < repetition < atomic;
\* a Literal of several chars binds like the concatenation of its chars
precedence(e) ==
    CASE e.kind = "Alternation" -> 1
      [] e.kind = "Concatenation" -> 2
      [] e.kind = "Literal" -> IF is_single_codepoint(e) THEN 4 ELSE 2
      [] e.kind = "Repetition" -> 3
      [] e.kind = "CharacterClass" -> 4

\* Display for Quantifier
quantifier_to_string(q) ==
    CASE q = "KleeneStar" -> <<42>>
      [] q = "QuestionMark" -> <<63>>

\* Itertools::join
RECURSIVE JoinWith(_, _)
JoinWith(strs, sep) ==
    IF strs = <<>> THEN <<>>
    ELSE IF Len(strs) = 1 THEN strs[1]
    ELSE strs[1] \o sep \o JoinWith(Tail(strs), sep)

\* "\u{1b}[1;32m", "\u{1b}[1;31m", "\u{1b}[1;35m", "\u{1b}[1;36m", "\u{1b}[0m"
Green == <<-132>>
Red == <<-131>>
Magenta == <<-135>>
Cyan == <<-136>>
Reset == <<-100>>

\* the test of lines 68, 183 and 251
NeedsGroup_or_equal(child, parent) ==
    precedence(child) <= precedence(parent) /\ ~is_single_codepoint(child)

NeedsGroup(child, parent) ==
    precedence(child) < precedence(parent) /\ ~is_single_codepoint(child)

\* lines 69-79 and 184-194: the child's rendering, in a group if it needs one
GroupedChild(child_str, child, parent) ==
    IF NeedsGroup(child, parent)
    THEN IF parent.config.is_output_colorized
         THEN Green \o LeftParenthesisOf(parent.config) \o Reset \o child_str
                  \o Green \o <<41>> \o Reset
         ELSE LeftParenthesisOf(parent.config) \o child_str \o <<41>>
    ELSE child_str

(***************************************************************************)
(* format_character_class (format.rs 45-47, 86-166)                        *)
(***************************************************************************)
\* BTreeSet<char>::iter: the chars in ascending order
RECURSIVE Ascending(_)
Ascending(set) ==
    IF set = {} THEN <<>>
    ELSE LET least == CHOOSE x \in set : \A y \in set : x <= y
         IN <<least>> \o Ascending(set \ {least})

\* the position of a char in CharRange::all(), which skips U+D800..U+DFFF
get_codepoint_position(ch) == IF ch < 55296 THEN ch ELSE ch - 2048

\* lines 94-106: [ ] \ - ^ get a backslash, \n \r \t their escapes
EscapeClassChar(ch) ==
    IF ch \in {91, 93, 92, 45, 94} THEN <<92, ch>>
    ELSE IF ch = 10 THEN <<92, 110>>
    ELSE IF ch = 13 THEN <<92, 114>>
    ELSE IF ch = 9 THEN <<92, 116>>
    ELSE <<ch>>

\* the loop of lines 116-129 from its i-th window on; a window is the pair of
\* the i-th and the (i+1)-th char
RECURSIVE CollectSubsets(_, _, _, _, _)
CollectSubsets(escaped_char_set, char_positions, i, subsets, subset) ==
    IF i >= Len(escaped_char_set)
    THEN [subsets |-> subsets, subset |-> subset]
    ELSE LET started == IF subset = <<>> THEN <<escaped_char_set[i]>> ELSE subset
         IN IF char_positions[i + 1] = char_positions[i] + 1
            THEN CollectSubsets(escaped_char_set, char_positions, i + 1, subsets,
                                Append(started, escaped_char_set[i + 1]))
            ELSE CollectSubsets(escaped_char_set, char_positions, i + 1,
                                Append(subsets, started), <<escaped_char_set[i + 1]>>)

\* lines 135-153: the strings of one subset
SubsetStrs(subset, config) ==
    IF Len(subset) <= 2
    THEN subset
    ELSE IF config.is_output_colorized
    THEN << subset[1] \o Cyan \o <<45>> \o Reset \o subset[Len(subset)] >>
    ELSE << subset[1] \o <<45>> \o subset[Len(subset)] >>

format_character_class(char_set, config) ==
    LET chars == Ascending(char_set)
        escaped_char_set == [i \in 1..Len(chars) |-> EscapeClassChar(chars[i])]
        char_positions == [i \in 1..Len(chars) |-> get_codepoint_position(chars[i])]
        loop == CollectSubsets(escaped_char_set, char_positions, 1, <<>>, <<>>)
        subsets == Append(loop.subsets, loop.subset)
        char_class_strs == Join([i \in 1..Len(subsets) |-> SubsetStrs(subsets[i], config)])
        joined_classes == Join(char_class_strs)
    IN IF config.is_output_colorized
       THEN Cyan \o <<91>> \o Reset \o joined_classes \o Cyan \o <<93>> \o Reset
       ELSE <<91>> \o joined_classes \o <<93>>

(***************************************************************************)
(* format_literal (format.rs 206-237)                                      *)
(***************************************************************************)
\* lines 215-231: the clone of a Grapheme as the closure escapes it
EscapedClone(g, config) ==
    IF g.repetitions # <<>>
    THEN [g EXCEPT !.repetitions =
             [i \in 1..Len(g.repetitions) |->
                 escape_regexp_symbols(g.repetitions[i],
                     config.is_non_ascii_char_escaped,
                     config.is_astral_code_point_converted_to_surrogate)]]
    ELSE escape_regexp_symbols(g, config.is_non_ascii_char_escaped,
             config.is_astral_code_point_converted_to_surrogate)

format_literal(cluster, config) ==
    Join([i \in 1..Len(cluster) |-> to_string(EscapedClone(cluster[i], config))])

\* the Graphemes of the cluster after format_literal: iter().cloned() hands
\* the closure copies, the cluster itself is only read
ClusterAfterFormat_escaped_in_place(cluster, config) ==
    [i \in 1..Len(cluster) |-> EscapedClone(cluster[i], config)]

ClusterAfterFormat(cluster, config) == cluster

(***************************************************************************)
(* Display for Expression (format.rs 25-84, 168-204, 239-266)              *)
(***************************************************************************)
RECURSIVE fmt(_)

format_alternation(e) ==
    LET pipe == IF e.config.is_output_colorized THEN Red \o <<124>> \o Reset ELSE <<124>>
    IN JoinWith([i \in 1..Len(e.options) |->
                    GroupedChild(fmt(e.options[i]), e.options[i], e)], pipe)

format_concatenation(e) ==
    GroupedChild(fmt(e.expr1), e.expr1, e) \o GroupedChild(fmt(e.expr2), e.expr2, e)

format_repetition(e) ==
    LET quantifier == quantifier_to_string(e.quantifier)
    IN IF NeedsGroup(e.expr1, e)
       THEN IF e.config.is_output_colorized
            THEN Green \o LeftParenthesisOf(e.config) \o Reset \o fmt(e.expr1)
                     \o Green \o <<41>> \o Reset \o Magenta \o quantifier \o Reset
            ELSE LeftParenthesisOf(e.config) \o fmt(e.expr1) \o <<41>> \o quantifier
       ELSE IF e.config.is_output_colorized
       THEN fmt(e.expr1) \o Magenta \o quantifier \o Reset
       ELSE fmt(e.expr1) \o quantifier

fmt(e) ==
    CASE e.kind = "Alternation" -> format_alternation(e)
      [] e.kind = "CharacterClass" -> format_character_class(e.char_set, e.config)
      [] e.kind = "Concatenation" -> format_concatenation(e)
      [] e.kind = "Literal" -> format_literal(e.cluster, e.config)
      [] e.kind = "Repetition" -> format_repetition(e)

\* the tree after fmt: fmt takes &self, and only format_literal touches Graphemes
RECURSIVE ExprAfterFmt(_)
ExprAfterFmt(e) ==
    CASE e.kind = "Alternation" ->
            [e EXCEPT !.options = [i \in 1..Len(e.options) |-> ExprAfterFmt(e.options[i])]]
      [] e.kind = "CharacterClass" -> e
      [] e.kind = "Concatenation" ->
            [e EXCEPT !.expr1 = ExprAfterFmt(e.expr1), !.expr2 = ExprAfterFmt(e.expr2)]
      [] e.kind = "Literal" -> [e EXCEPT !.cluster = ClusterAfterFormat(e.cluster, e.config)]
      [] e.kind = "Repetition" -> [e EXCEPT !.expr1 = ExprAfterFmt(e.expr1)]

(***************************************************************************)
(* Specification of the renderer: a caller holds an Expression tree and    *)
(* renders it with to_string() again and again.                            *)
(***************************************************************************)
\* how many times one tree is rendered
MaxRenders == 3

\* the Literals a, ab and the class [ab]: the leaves of the trees
TreeLeaves(cfg) ==
    { Literal(<<Grapheme_from(<<97>>, cfg)>>, cfg),
      Literal(<<Grapheme_from(<<97>>, cfg), Grapheme_from(<<98>>, cfg)>>, cfg),
      CharacterClass({97, 98}, cfg) }

NodesOver(children, cfg) ==
    { Alternation(<<x, y>>, cfg) : x \in children, y \in children }
    \cup { Concatenation(x, y, cfg) : x \in children, y \in children }
    \cup { Repetition(x, q, cfg) : x \in children, q \in {"KleeneStar", "QuestionMark"} }

Trees(cfg) ==
    LET small == TreeLeaves(cfg) \cup NodesOver(TreeLeaves(cfg), cfg)
    IN small \cup NodesOver(small, cfg)
         \cup { Alternation(<<x, y, z>>, cfg) :
                    x \in TreeLeaves(cfg), y \in TreeLeaves(cfg), z \in TreeLeaves(cfg) }

TreeConfigs == { RegExpConfig(cap, col, FALSE, FALSE) : cap \in BOOLEAN, col \in BOOLEAN }

\* \t \n - [ \ ] a b c x U+D7FF U+E000 U+E001
ClassPool == {9, 10, 45, 91, 92, 93, 97, 98, 99, 120, 55295, 57344, 57345}

Classes(cfg) == { CharacterClass(set, cfg) : set \in SUBSET ClassPool }

ClassConfigs == { RegExpConfig(FALSE, col, FALSE, FALSE) : col \in BOOLEAN }

\* Graphemes of one fragment: a, . and U+1F600, once or twice
LeafGraphemes(cfg) ==
    { Grapheme_new(<<f>>, n, n, cfg) : f \in {<<97>>, <<46>>, <<128512>>}, n \in 1..2 }

\* the chars of a Grapheme as often as it occurs at least
RECURSIVE Repeated(_, _)
Repeated(chars, n) == IF n = 0 THEN <<>> ELSE chars \o Repeated(chars, n - 1)

\* a Grapheme of several repeated runs: its chars are the runs written out,
\* its repetitions are the runs
Composite(runs, n, cfg) ==
    [chars |-> Join([i \in 1..Len(runs) |-> Repeated(runs[i].chars, runs[i].min)]),
     repetitions |-> runs, min |-> n, max |-> n, config |-> cfg]

Composites1(cfg) ==
    { Composite(<<x, y>>, 2, cfg) : x \in LeafGraphemes(cfg), y \in LeafGraphemes(cfg) }

Composites2(cfg) ==
    { Composite(<<x, y>>, 2, cfg) :
        x \in { Composite(<<u, v>>, 2, cfg) :
                   u \in { g \in LeafGraphemes(cfg) : g.min = 2 }, v \in LeafGraphemes(cfg) },
        y \in { g \in LeafGraphemes(cfg) : g.min = 1 } }

Literals(cfg) ==
    { Literal(<<g>>, cfg) : g \in LeafGraphemes(cfg) \cup Composites1(cfg) \cup Composites2(cfg) }
    \cup { Literal(<<g, h>>, cfg) : g \in LeafGraphemes(cfg), h \in LeafGraphemes(cfg) }

ExprInputs ==
    UNION { Trees(cfg) : cfg \in TreeConfigs }
    \cup UNION { Classes(cfg) : cfg \in ClassConfigs }
    \cup UNION { Literals(cfg) : cfg \in Configs }

InitRender ==
    /\ expr \in ExprInputs
    /\ rendered = Pending
    /\ renders = 0
    /\ IdleOverlap /\ IdleEscape /\ IdleGrapheme

\* expr.to_string()
Render ==
    /\ renders < MaxRenders
    /\ rendered' = Done(fmt(expr))
    /\ expr' = ExprAfterFmt(expr)
    /\ renders' = renders + 1
    /\ UNCHANGED <<overlapVars, escapeVars, graphemeVars>>

NextRender == Render

SpecRender == InitRender /\ [][NextRender]_vars

(***************************************************************************)
(* Properties of the renderer                                              *)
(***************************************************************************)
Plain(e) == StripAnsi(fmt(e))

\* a child's rendering as its parent embeds it: in a group iff its precedence
\* is strictly lower than the parent's and it is not a single codepoint
Embedded(child, parent) ==
    IF precedence(child) < precedence(parent) /\ ~is_single_codepoint(child)
    THEN (IF parent.config.is_capturing_group_enabled THEN <<40>> ELSE <<40, 63, 58>>)
             \o Plain(child) \o <<41>>
    ELSE Plain(child)

NodeOfChildren(e) ==
    CASE e.kind = "Alternation" ->
            JoinWith([i \in 1..Len(e.options) |-> Embedded(e.options[i], e)], <<124>>)
      [] e.kind = "Concatenation" -> Embedded(e.expr1, e) \o Embedded(e.expr2, e)
      [] e.kind = "Repetition" -> Embedded(e.expr1, e) \o quantifier_to_string(e.quantifier)

HasChildren(e) == e.kind \in {"Alternation", "Concatenation", "Repetition"}

\* C6: in an Alternation, Concatenation or Repetition a child's rendering is
\* wrapped in a group iff the child's precedence is strictly lower than the
\* parent's and the child is not a single codepoint; the group opens with "("
\* with capturing groups and with "(?:" without, and closes with ")"; every
\* other child is embedded unchanged.
C6_GroupIffLowerPrecedence ==
    (rendered.done /\ HasChildren(expr)) => StripAnsi(rendered.ret) = NodeOfChildren(expr)

\* a Concatenation of an Alternation, which is grouped, and of a Repetition,
\* which is not
C6_Witness ==
    /\ rendered.done
    /\ expr.kind = "Concatenation"
    /\ expr.expr1.kind = "Alternation"
    /\ expr.expr2.kind = "Repetition"
    /\ expr.config.is_capturing_group_enabled

\* the runs of ordinal-consecutive chars of a class, by the index of a char
\* among the ascending chars
RunStartsAt(chars, i) ==
    i = 1 \/ get_codepoint_position(chars[i]) # get_codepoint_position(chars[i - 1]) + 1
RunEndsAt(chars, i) ==
    i = Len(chars) \/ get_codepoint_position(chars[i + 1]) # get_codepoint_position(chars[i]) + 1
RunFirst(chars, i) == CHOOSE j \in 1..i : RunStartsAt(chars, j) /\ \A k \in (j + 1)..i : ~RunStartsAt(chars, k)
RunLast(chars, i) == CHOOSE j \in i..Len(chars) : RunEndsAt(chars, j) /\ \A k \in i..(j - 1) : ~RunEndsAt(chars, k)
RunLength(chars, i) == RunLast(chars, i) - RunFirst(chars, i) + 1

\* what the i-th char adds to the class: itself in a run of one or two, the
\* whole run as first-last when it starts a run of three or more
ClassPiece(chars, i) ==
    IF RunLength(chars, i) <= 2
    THEN EscapeClassChar(chars[i])
    ELSE IF RunStartsAt(chars, i)
    THEN EscapeClassChar(chars[i]) \o <<45>> \o EscapeClassChar(chars[RunLast(chars, i)])
    ELSE <<>>

ClassOfRuns(char_set) ==
    LET chars == Ascending(char_set)
    IN <<91>> \o Join([i \in 1..Len(chars) |-> ClassPiece(chars, i)]) \o <<93>>

\* C7: a CharacterClass is rendered as its maximal runs of ordinal-consecutive
\* chars in ascending order between [ and ]: a run of three or more as
\* first-last, a run of one or two as its chars.
C7_ClassIsItsRuns ==
    (rendered.done /\ expr.kind = "CharacterClass") =>
        StripAnsi(rendered.ret) = ClassOfRuns(expr.char_set)

\* C7 for every class but those of exactly one char
C7_HoldsOffSingletons ==
    (rendered.done /\ expr.kind = "CharacterClass" /\ Cardinality(expr.char_set) # 1) =>
        StripAnsi(rendered.ret) = ClassOfRuns(expr.char_set)

\* The set a rendered class denotes, read off the text between [ and ].
\* A char is escaped when an odd number of backslashes stands right before it.
ClassBody(str) == SubSeq(str, 2, Len(str) - 1)
BackslashesBefore(body, i) ==
    Cardinality({ j \in 1..(i - 1) : \A k \in j..(i - 1) : body[k] = 92 })
IsEscapedAt(body, i) == BackslashesBefore(body, i) % 2 = 1
\* the positions that stand for a char of the class
IsItemAt(body, i) == IsEscapedAt(body, i) \/ body[i] \notin {92, 45}
\* the positions of the hyphen of a first-last range
IsRangeAt(body, i) == body[i] = 45 /\ ~IsEscapedAt(body, i)
ItemChar(body, i) ==
    IF ~IsEscapedAt(body, i) THEN body[i]
    ELSE IF body[i] = 110 THEN 10
    ELSE IF body[i] = 114 THEN 13
    ELSE IF body[i] = 116 THEN 9
    ELSE body[i]
\* the char right after a hyphen, behind its backslash if it has one
ItemAfter(body, i) == IF body[i + 1] = 92 THEN ItemChar(body, i + 2) ELSE ItemChar(body, i + 1)
ScalarValues(lo, hi) == { x \in lo..hi : x < 55296 \/ x > 57343 }

DenotedSet(str) ==
    LET body == ClassBody(str)
    IN { ItemChar(body, i) : i \in { k \in 1..Len(body) : IsItemAt(body, k) } }
       \cup UNION { ScalarValues(ItemChar(body, i - 1), ItemAfter(body, i)) :
                      i \in { k \in 1..Len(body) : IsRangeAt(body, k) } }

IsNonEmptyClass(e) == e.kind = "CharacterClass" /\ e.char_set # {}

\* C11: the text rendered for a non-empty codepoint set, a set of one char
\* included, denotes exactly that set: every char of the set is in the text as
\* a char or inside a first-last range, and no range covers a char outside it.
C11_ClassDenotesItsSet ==
    (rendered.done /\ IsNonEmptyClass(expr)) =>
        DenotedSet(StripAnsi(rendered.ret)) = expr.char_set

\* C11 for every set of two or more chars
C11_HoldsFromTwoChars ==
    (rendered.done /\ IsNonEmptyClass(expr) /\ Cardinality(expr.char_set) >= 2) =>
        DenotedSet(StripAnsi(rendered.ret)) = expr.char_set

\* C9: rendering leaves the tree as it was, and every render of a tree
\* returns the same String as the render before it.
C9_RenderIsRepeatable ==
    [][expr' = expr /\ (rendered.done => rendered' = rendered)]_vars

\* a Literal rendered twice whose rendering had to escape a fragment
C9_Witness ==
    /\ renders >= 2
    /\ expr.kind = "Literal"
    /\ \E i \in 1..Len(expr.cluster) :
          EscapedClone(expr.cluster[i], expr.config) # expr.cluster[i]

\* a Grapheme with the fragments of all its leaves escaped once
RECURSIVE LeavesEscaped(_, _)
LeavesEscaped(g, config) ==
    IF g.repetitions = <<>>
    THEN escape_regexp_symbols(g, config.is_non_ascii_char_escaped,
             config.is_astral_code_point_converted_to_surrogate)
    ELSE [g EXCEPT !.repetitions =
             [i \in 1..Len(g.repetitions) |-> LeavesEscaped(g.repetitions[i], config)]]

RECURSIVE Depth(_)
Depth(g) ==
    IF g.repetitions = <<>> THEN 0
    ELSE 1 + Max2(Depth(g.repetitions[1]), Depth(g.repetitions[Len(g.repetitions)]))

LiteralOfEscapedLeaves(e) ==
    Join([i \in 1..Len(e.cluster) |-> to_string(LeavesEscaped(e.cluster[i], e.config))])

IsCompositeLiteral(e) ==
    e.kind = "Literal" /\ \E i \in 1..Len(e.cluster) : e.cluster[i].repetitions # <<>>

\* C10: a rendered Literal with a composite Grapheme is the rendering of its
\* Graphemes with every leaf fragment, at any depth of repetitions, escaped
\* exactly once.
C10_LeavesEscapedAtAnyDepth ==
    (rendered.done /\ IsCompositeLiteral(expr)) => rendered.ret = LiteralOfEscapedLeaves(expr)

\* C10 for composites whose repetitions are all leaves
C10_HoldsAtDepthOne ==
    (rendered.done /\ IsCompositeLiteral(expr) /\ Depth(expr.cluster[1]) <= 1) =>
        rendered.ret = LiteralOfEscapedLeaves(expr)

====
